---- MODULE Spec2Model ----
(***************************************************************************)
(* A model of markc, a markdown preprocessor (src/src/main.rs):            *)
(*   parse_md   segments a file into Text and Call parts,                  *)
(*   parse_call parses the body of one call, parse_arg one argument,       *)
(*   evaluate   expands the calls through the plugins, recursively,        *)
(*   rebuild    concatenates the text parts, main writes dist.md.          *)
(* Strings are sequences of characters, a character is a one-letter        *)
(* string.                                                                 *)
(***************************************************************************)
EXTENDS Integers, Sequences, FiniteSets, TLC

VARIABLES
    overflow_checks,  \* the build: TRUE when integer overflow panics (debug profile)
    pcall,            \* the locals of parse_call, one record
    pmd,              \* the locals of parse_md and the text rebuilt from its parts
    fs,               \* the file system: path -> content, or NoFile
    plugins,          \* the plugin list handed to evaluate
    main              \* the state of main: its position, the evaluate stack, the output

vars == <<overflow_checks, pcall, pmd, fs, plugins, main>>

----------------------------------------------------------------------------
(* Bounds *)

MaxShortLen == 3   \* call bodies over the whole alphabet: up to this length
MaxArgs == 2       \* structured call bodies: up to this number of arguments
MaxTextLen == 4    \* file contents handed to parse_md alone: up to this length
MaxPieces == 3     \* file contents put together from pieces: up to this number
MaxPlugins == 2    \* plugin lists: up to this length
MaxDepth == 4      \* frames of evaluate the call stack holds before it overflows

----------------------------------------------------------------------------
(* Characters *)

QUOTE == "\""
HASH == "#"

Whitespace == {" "}
Digits == {"3", "7"}
Letters == {"f", "g", "é", "i", "n", "c", "l", "u", "d", "e", "o", "p"}
Alphanumeric == Letters \cup Digits

\* char::is_whitespace, char::is_alphanumeric
IsWhitespace(c) == c \in Whitespace
IsAlphanumeric(c) == c \in Alphanumeric

\* the UTF-8 width of a character: str::len counts bytes
CharBytes(c) == IF c = "é" THEN 2 ELSE 1

\* str::len: one byte for each character, and one more for each wide one
ByteLen(s) == Len(s) + Cardinality({k \in 1..Len(s) : CharBytes(s[k]) = 2})

DigitVal(c) == IF c = "3" THEN 3 ELSE 7

RECURSIVE SeqsUpTo(_, _)
SeqsUpTo(S, n) ==
    IF n = 0 THEN {<<>>}
    ELSE LET shorter == SeqsUpTo(S, n - 1)
         IN  shorter \cup {Append(s, c) : s \in {t \in shorter : Len(t) = n - 1}, c \in S}

RECURSIVE Flatten(_)
Flatten(ss) == IF ss = <<>> THEN <<>> ELSE Head(ss) \o Flatten(Tail(ss))

Last(s) == s[Len(s)]
Front(s) == SubSeq(s, 1, Len(s) - 1)

\* str::trim: from the first to the last character that is no whitespace
Trim(s) ==
    LET solid == {k \in 1..Len(s) : ~IsWhitespace(s[k])}
    IN  IF solid = {} THEN <<>>
        ELSE SubSeq(s, CHOOSE k \in solid : \A n \in solid : k <= n,
                       CHOOSE k \in solid : \A n \in solid : n <= k)

----------------------------------------------------------------------------
(* Values and results *)

ValuePath(p) == [type |-> "Path", str |-> p, num |-> 0]
ValueString(s) == [type |-> "String", str |-> s, num |-> 0]
ValueNumber(n) == [type |-> "Number", str |-> <<>>, num |-> n]

NoValue == [type |-> "None", str |-> <<>>, num |-> 0]

\* the result of parse_arg: Ok(value), Err(CallParseError) or a panic
ArgOk(v) == [tag |-> "Ok", value |-> v, err |-> "None"]
ArgErr(e) == [tag |-> "Err", value |-> NoValue, err |-> e]
ArgPanic(e) == [tag |-> "Panic", value |-> NoValue, err |-> e]

\* a sign taken for an invalid digit
IsInteger_Unsigned(a) == a # <<>> /\ \A k \in 1..Len(a) : a[k] \in Digits

\* <i64 as FromStr>::from_str: an optional sign, then at least one digit
IsInteger(a) ==
    LET digits == IF a # <<>> /\ Head(a) \in {"+", "-"} THEN Tail(a) ELSE a
    IN  /\ digits # <<>>
        /\ \A k \in 1..Len(digits) : digits[k] \in Digits

\* the digits of i64::MAX and of the magnitude of i64::MIN
I64MaxDigits == <<9, 2, 2, 3, 3, 7, 2, 0, 3, 6, 8, 5, 4, 7, 7, 5, 8, 0, 7>>
I64MinDigits == <<9, 2, 2, 3, 3, 7, 2, 0, 3, 6, 8, 5, 4, 7, 7, 5, 8, 0, 8>>

\* the number the digits ds write is at most the one limit writes (the
\* digits of the model have no zero, so none of them is a leading zero)
DigitsAtMost(ds, limit) ==
    \/ Len(ds) < Len(limit)
    \/ /\ Len(ds) = Len(limit)
       /\ \/ \A k \in 1..Len(ds) : DigitVal(ds[k]) = limit[k]
          \/ \E k \in 1..Len(ds) :
                /\ DigitVal(ds[k]) < limit[k]
                /\ \A j \in 1..(k - 1) : DigitVal(ds[j]) = limit[j]

\* from_str fails with PosOverflow or NegOverflow past the range of i64
InRangeI64(a) ==
    IF Head(a) = "-" THEN DigitsAtMost(Tail(a), I64MinDigits)
    ELSE IF Head(a) = "+" THEN DigitsAtMost(Tail(a), I64MaxDigits)
    ELSE DigitsAtMost(a, I64MaxDigits)

RECURSIVE DigitsVal(_)
DigitsVal(ds) == IF ds = <<>> THEN 0 ELSE 10 * DigitsVal(Front(ds)) + DigitVal(Last(ds))

IntegerVal(a) ==
    IF Head(a) = "-" THEN 0 - DigitsVal(Tail(a))
    ELSE IF Head(a) = "+" THEN DigitsVal(Tail(a))
    ELSE DigitsVal(a)

\* strip_prefix(d).unwrap().strip_suffix(d).unwrap(): the text between the
\* delimiters; of a text that is one delimiter alone the second unwrap panics
ClassifyArg(a) ==
    LET inner == SubSeq(a, 2, Len(a) - 1)
    IN  IF a = <<>> THEN ArgErr("EmptyArgument")
        ELSE IF Head(a) = HASH THEN
            IF Last(a) # HASH THEN ArgErr("UnclosedLiteral")
            ELSE IF Len(a) < 2 THEN ArgPanic("unwrap on None")
            ELSE ArgOk(ValuePath(inner))
        ELSE IF Head(a) = QUOTE THEN
            IF Last(a) # QUOTE THEN ArgErr("UnclosedLiteral")
            ELSE IF Len(a) < 2 THEN ArgPanic("unwrap on None")
            ELSE ArgOk(ValueString(inner))
        ELSE IF IsInteger(a) /\ InRangeI64(a) THEN ArgOk(ValueNumber(IntegerVal(a)))
        ELSE ArgErr("ParseIntError")

\* the buffer classified as it is, untrimmed
parse_arg_NoTrim(buf) == ClassifyArg(buf)

\* `let a = buf.trim();` (line 174), then the match on a
parse_arg(buf) == CHOOSE r \in {ClassifyArg(a) : a \in {Trim(buf)}} : TRUE

----------------------------------------------------------------------------
(* parse_call: one record of locals, one step per loop iteration part *)

\* the result of parse_call: Ok((function_name, args)), Err(CallParseError)
\* or a panic; sym is the character InvalidSymbol carries
CallOk(name, args) ==
    [tag |-> "Ok", function_name |-> name, args |-> args, err |-> "None", sym |-> ""]
CallErr(e, c) ==
    [tag |-> "Err", function_name |-> <<>>, args |-> <<>>, err |-> e, sym |-> c]
CallPanic(e) ==
    [tag |-> "Panic", function_name |-> <<>>, args |-> <<>>, err |-> e, sym |-> ""]
NoCallResult ==
    [tag |-> "None", function_name |-> <<>>, args |-> <<>>, err |-> "None", sym |-> ""]

\* the locals at the first test of the loop (lines 204-210)
PCallInit(buffer) ==
    [buffer |-> buffer, i |-> 0, cs |-> "Start",
     in_path |-> FALSE, in_string |-> FALSE,
     function_name |-> <<>>, args |-> <<>>, buf |-> <<>>,
     pc |-> "while", result |-> NoCallResult]

\* parse_call has not started: the locals of a call that never runs
PCallIdle == [PCallInit(<<>>) EXCEPT !.pc = "idle"]

PCallReturn(st, r) == [st EXCEPT !.pc = "done", !.result = r]

\* i is a usize. usize::MAX is written -1 here, the integer with the same
\* bits: i - 1 at i = 0 wraps to it when overflow is unchecked, and i + 1
\* wraps it back to 0.
WrappingSub1(i) == IF i = 0 THEN 0 - 1 ELSE i - 1
WrappingAdd1(i) == i + 1
USizeLess(i, n) == i >= 0 /\ i < n

\* `while i < buffer.len()`: the bound is the length in bytes
LoopRuns(st) == USizeLess(st.i, ByteLen(st.buffer))

\* buffer.chars().skip(i).next(): the character at position i, if any
HasChar(st) == st.i >= 0 /\ st.i < Len(st.buffer)
CharAt(st) == st.buffer[st.i + 1]

\* CurrentState::Start (lines 214-219)
StepStart(st, c, checks) ==
    IF IsWhitespace(c) THEN [st EXCEPT !.pc = "incr"]
    ELSE IF st.i = 0 /\ checks
         THEN PCallReturn([st EXCEPT !.cs = "FunctionName"],
                          CallPanic("attempt to subtract with overflow"))
         ELSE [st EXCEPT !.cs = "FunctionName", !.i = WrappingSub1(st.i), !.pc = "incr"]

\* CurrentState::FunctionName (lines 220-230)
StepFunctionName(st, c) ==
    IF IsAlphanumeric(c) THEN [st EXCEPT !.buf = Append(st.buf, c), !.pc = "incr"]
    ELSE IF IsWhitespace(c) THEN [st EXCEPT !.pc = "incr"]
    ELSE IF c = "(" THEN
        [st EXCEPT !.function_name = st.buf, !.buf = <<>>,
                   !.cs = "FunctionArgs", !.pc = "incr"]
    ELSE PCallReturn(st, CallErr("InvalidSymbol", c))

\* each toggle taken whatever the other mode is
ToggleString_Always(c, in_path, in_string) ==
    IF c = QUOTE THEN ~in_string ELSE in_string
TogglePath_Always(c, in_path, in_string) ==
    IF c = HASH THEN ~in_path ELSE in_path

\* the two toggles (lines 232-237)
ToggleString(c, in_path, in_string) ==
    IF c = QUOTE /\ ~in_path THEN ~in_string ELSE in_string
TogglePath(c, in_path, in_string) ==
    IF c = HASH /\ ~in_string THEN ~in_path ELSE in_path

\* args.push(parse_arg(&buf)?); buf.clear(); then break or go on
PushArgument(st, break, r) ==
    IF r.tag = "Err" THEN PCallReturn(st, CallErr(r.err, ""))
    ELSE IF r.tag = "Panic" THEN PCallReturn(st, CallPanic(r.err))
    ELSE LET pushed == [st EXCEPT !.args = Append(st.args, r.value), !.buf = <<>>]
         IN  IF break THEN PCallReturn(pushed, CallOk(pushed.function_name, pushed.args))
             ELSE [pushed EXCEPT !.pc = "incr"]

CloseArgument(st, break) ==
    CHOOSE next \in {PushArgument(st, break, r) : r \in {parse_arg(st.buf)}} : TRUE

\* CurrentState::FunctionArgs (lines 231-250)
StepFunctionArgs(st, c) ==
    LET in_string == ToggleString(c, st.in_path, st.in_string)
        in_path == TogglePath(c, st.in_path, in_string)
        t == [st EXCEPT !.in_string = in_string, !.in_path = in_path]
    IN  IF in_path \/ in_string THEN [t EXCEPT !.buf = Append(t.buf, c), !.pc = "incr"]
        ELSE IF c = ")" THEN CloseArgument(t, TRUE)
        ELSE IF c = "," THEN CloseArgument(t, FALSE)
        ELSE [t EXCEPT !.buf = Append(t.buf, c), !.pc = "incr"]

\* one iteration of the loop body (lines 212-251); next().unwrap() panics
\* when the byte bound lets i run past the last character
StepBody(st, checks) ==
    IF ~HasChar(st) THEN PCallReturn(st, CallPanic("unwrap on None"))
    ELSE IF st.cs = "Start" THEN StepStart(st, CharAt(st), checks)
    ELSE IF st.cs = "FunctionName" THEN StepFunctionName(st, CharAt(st))
    ELSE StepFunctionArgs(st, CharAt(st))

\* `i += 1` (line 252)
StepIncr(st) == [st EXCEPT !.i = WrappingAdd1(st.i), !.pc = "while"]

\* the loop is left at its test: Ok((function_name, args)) (line 254)
StepExit(st) == PCallReturn(st, CallOk(st.function_name, st.args))

PCallStep(st, checks) ==
    IF st.pc = "incr" THEN StepIncr(st)
    ELSE IF LoopRuns(st) THEN StepBody(st, checks)
    ELSE StepExit(st)

\* the steps in turn, up to the return (each step is taken on the locals
\* the step before has left)
RECURSIVE PCallRun(_, _)
PCallRun(st, checks) ==
    IF st.pc = "done" THEN st.result
    ELSE CHOOSE r \in {PCallRun(next, checks) : next \in {PCallStep(st, checks)}} : TRUE

parse_call(buffer, checks) == PCallRun(PCallInit(buffer), checks)

----------------------------------------------------------------------------
(* The file system, parts, parse_md and rebuild *)

\* what std::fs::read_to_string finds at a path that has no readable file
NoFile == <<"<unreadable>">>

MarkdownText(content, source) ==
    [kind |-> "Text", content |-> content, function |-> <<>>,
     arguments |-> <<>>, source |-> source]
MarkdownCall(function, arguments, source) ==
    [kind |-> "Call", content |-> <<>>, function |-> function,
     arguments |-> arguments, source |-> source]

\* std::fs::read_to_string: the content, or NoFile for the io error
ReadToString(filesys, path) ==
    IF path \in DOMAIN filesys THEN filesys[path] ELSE NoFile

\* the result of parse_md: Ok(parts), Err(CompilationError) or a panic;
\* cause is the CallParseError inside CompilationError::CallParseError
MdOk(parts) == [tag |-> "Ok", parts |-> parts, err |-> "None", cause |-> "None"]
MdErr(e, cause) == [tag |-> "Err", parts |-> <<>>, err |-> e, cause |-> cause]
MdPanic(e) == [tag |-> "Panic", parts |-> <<>>, err |-> e, cause |-> "None"]
NoMdResult == [tag |-> "None", parts |-> <<>>, err |-> "None", cause |-> "None"]

\* the result of rebuild: the text, or the panic "Call in rebuild"
RebuildOk(text) == [tag |-> "Ok", text |-> text]
RebuildPanic == [tag |-> "Panic", text |-> <<>>]
NoRebuild == [tag |-> "None", text |-> <<>>]

PMdReturn(st, r) == [st EXCEPT !.pc = "done", !.result = r]

\* lines 107-114: read the file, `?` returns the io error
PMdInit(path, filesys) ==
    LET st == [path |-> path, content |-> <<>>, pos |-> 1, parts |-> <<>>,
               buf |-> <<>>, cs |-> "InText", pc |-> "chars",
               result |-> NoMdResult, rebuilt |-> NoRebuild]
    IN  IF ReadToString(filesys, path) = NoFile THEN PMdReturn(st, MdErr("IOError", "None"))
        ELSE [st EXCEPT !.content = ReadToString(filesys, path)]

PMdIdle ==
    [path |-> <<>>, content |-> <<>>, pos |-> 1, parts |-> <<>>,
     buf |-> <<>>, cs |-> "InText", pc |-> "idle",
     result |-> NoMdResult, rebuilt |-> NoRebuild]

\* buf.ends_with(c)
EndsWith(buf, c) == buf # <<>> /\ Last(buf) = c

\* a single `{` taken for the opening of a call
OpensCall_SingleBrace(c, buf) == c = "{"

\* a single `}` taken for the closing of a call
ClosesCall_SingleBrace(c, buf) == c = "}"

\* the test that opens a call (line 119) and the one that closes it (line 132)
OpensCall(c, buf) == c = "{" /\ EndsWith(buf, "{")
ClosesCall(c, buf) == c = "}" /\ EndsWith(buf, "}")

\* CurrentState::InText (lines 118-130)
StepInText(st, c) ==
    IF OpensCall(c, st.buf) THEN
        [st EXCEPT !.parts = Append(st.parts, MarkdownText(Front(st.buf), st.path)),
                   !.cs = "InCall", !.buf = <<>>, !.pos = st.pos + 1]
    ELSE [st EXCEPT !.buf = Append(st.buf, c), !.pos = st.pos + 1]

\* CurrentState::InCall (lines 131-145)
PushCall(st, r) ==
    IF r.tag = "Err" THEN PMdReturn(st, MdErr("CallParseError", r.err))
    ELSE IF r.tag = "Panic" THEN PMdReturn(st, MdPanic(r.err))
    ELSE [st EXCEPT !.parts = Append(st.parts,
                        MarkdownCall(r.function_name, r.args, st.path)),
                    !.cs = "InText", !.buf = <<>>, !.pos = st.pos + 1]

StepInCall(st, c, checks) ==
    IF ClosesCall(c, st.buf) THEN
        CHOOSE next \in {PushCall(st, r) : r \in {parse_call(Front(st.buf), checks)}} : TRUE
    ELSE [st EXCEPT !.buf = Append(st.buf, c), !.pos = st.pos + 1]

\* an empty buffer left out at the end of the input
StepEnd_DropEmpty(st) ==
    IF st.buf = <<>> THEN PMdReturn(st, MdOk(st.parts))
    ELSE PMdReturn(st, MdOk(Append(st.parts, MarkdownText(st.buf, st.path))))

\* after the loop (lines 148-152): the buffer becomes a last Text part
StepEnd(st) == PMdReturn(st, MdOk(Append(st.parts, MarkdownText(st.buf, st.path))))

PMdStep(st, checks) ==
    IF st.pos > Len(st.content) THEN StepEnd(st)
    ELSE IF st.cs = "InText" THEN StepInText(st, st.content[st.pos])
    ELSE StepInCall(st, st.content[st.pos], checks)

RECURSIVE PMdRun(_, _)
PMdRun(st, checks) ==
    IF st.pc = "done" THEN st.result
    ELSE CHOOSE r \in {PMdRun(next, checks) : next \in {PMdStep(st, checks)}} : TRUE

parse_md(path, filesys, checks) == PMdRun(PMdInit(path, filesys), checks)

RECURSIVE rebuild(_)
rebuild(content) ==
    IF content = <<>> THEN RebuildOk(<<>>)
    ELSE IF Head(content).kind = "Call" THEN RebuildPanic
    ELSE LET rest == rebuild(Tail(content))
         IN  IF rest.tag = "Panic" THEN RebuildPanic
             ELSE RebuildOk(Head(content).content \o rest.text)

----------------------------------------------------------------------------
(* Paths, plugins and evaluate *)

SEP == "/"

\* Path::parent of a path without a trailing separator that names a file:
\* the path without its last component
Parent(p) ==
    LET seps == {k \in 1..Len(p) : p[k] = SEP}
        k == CHOOSE m \in seps : \A n \in seps : n <= m
    IN  IF seps = {} THEN <<>>
        ELSE IF k = 1 THEN <<SEP>>
        ELSE SubSeq(p, 1, k - 1)

\* Path::join: an absolute path replaces the base, a relative one is
\* appended after a separator
Join(base, p) ==
    IF p # <<>> /\ Head(p) = SEP THEN p
    ELSE IF base = <<>> \/ Last(base) = SEP THEN base \o p
    ELSE base \o <<SEP>> \o p

Include == <<"i", "n", "c", "l", "u", "d", "e">>

\* the two plugins of the repository; exposed_functions, as the names
Plugins == {"Core", "IncludePlugin"}
exposed_functions(pl) == {Include}

\* the result of function_called and of evaluate: Ok(parts),
\* Err(PluginError) or a panic; name is the String of FunctionNotFound,
\* cause the CompilationError inside PluginError::CompilationError
PluginOk(parts) ==
    [tag |-> "Ok", parts |-> parts, err |-> "None", cause |-> "None", name |-> <<>>]
PluginErr(e, cause, name) ==
    [tag |-> "Err", parts |-> <<>>, err |-> e, cause |-> cause, name |-> name]
PluginPanic(e) ==
    [tag |-> "Panic", parts |-> <<>>, err |-> e, cause |-> "None", name |-> <<>>]
NoPluginResult ==
    [tag |-> "None", parts |-> <<>>, err |-> "None", cause |-> "None", name |-> <<>>]

\* map_err(|err| PluginError::CompilationError(Box::new(err)))
MapCompilationError(r) ==
    IF r.tag = "Ok" THEN PluginOk(r.parts)
    ELSE IF r.tag = "Err" THEN PluginErr("CompilationError", r.err, <<>>)
    ELSE PluginPanic(r.err)

\* Core::function_called and IncludePlugin::function_called, the same code
function_called(pl, function, arguments, ctx, filesys, checks) ==
    IF function = Include THEN
        IF arguments = <<>> THEN PluginErr("InvalidArguments", "None", <<>>)
        ELSE IF Head(arguments).type = "Path" THEN
            MapCompilationError(parse_md(Join(ctx, Head(arguments).str), filesys, checks))
        ELSE PluginErr("InvalidArguments", "None", <<>>)
    ELSE PluginErr("FunctionNotFound", "None", function)

\* evaluate is recursive: one frame per activation, the last is the running
\* one. A frame holds `content`, the position of `part` in it, the position
\* of `pl` in the plugin list and `new_parts`.
Frame(content) == [content |-> content, pos |-> 1, pl |-> 1, new_parts |-> <<>>]

\* the file a frame's content was read from: parse_md returns at least one
\* part, and every part carries the path
FrameFile(frame) == frame.content[1].source

\* the state of main (lines 294-303): where it is (and which panic ended
\* it), args.file, the parts parse_md returned, the frames of evaluate, what
\* evaluate returned, the text of rebuild, and the history of the plugin
\* invocations
MainInit(file) ==
    [pc |-> "parse", panic |-> "None", file |-> file, content |-> <<>>,
     stack |-> <<>>, evaluated |-> NoPluginResult,
     text |-> NoRebuild, invoked |-> <<>>]

\* one invocation in the history: the position of the plugin, the call (the
\* positions of the running parts of all frames, and the part), the path an
\* include resolves to, and the files under expansion at that time
Invocation(stack, pl, part) ==
    [pl |-> pl, at |-> [k \in 1..Len(stack) |-> stack[k].pos], part |-> part,
     path |-> IF part.arguments # <<>>
              THEN Join(Parent(part.source), Head(part.arguments).str)
              ELSE <<>>,
     active |-> {FrameFile(stack[k]) : k \in 1..Len(stack)}]

MainIdle == [MainInit(<<>>) EXCEPT !.pc = "idle"]

Top(stack) == stack[Len(stack)]
Part(frame) == frame.content[frame.pos]
AtPart(m, kind) ==
    /\ m.pc = "evaluate"
    /\ Top(m.stack).pos <= Len(Top(m.stack).content)
    /\ Part(Top(m.stack)).kind = kind
SetTop(stack, frame) == [stack EXCEPT ![Len(stack)] = frame]

\* line 269: the plugin exposes the function of the call
Exposes(pl, function) == function \in exposed_functions(pl)

\* every call resolved against the working directory
ContextPath_WorkingDir(part) == <<>>

\* line 266: the parent directory of the file the call comes from. A part's
\* source is a file parse_md has read, never the empty path nor the root,
\* so the unwrap finds a parent.
ContextPath(part) == Parent(part.source)

\* lines 261-263: a Text part is pushed as it is
EvalText(m) ==
    LET f == Top(m.stack)
    IN  [m EXCEPT !.stack = SetTop(m.stack,
            [f EXCEPT !.new_parts = Append(f.new_parts, Part(f)), !.pos = f.pos + 1])]

\* lines 268-269: the plugin does not expose the function, the loop goes on
EvalNextPlugin(m) ==
    LET f == Top(m.stack)
    IN  [m EXCEPT !.stack = SetTop(m.stack, [f EXCEPT !.pl = f.pl + 1])]

\* the call no plugin exposes kept in the output
EvalNoPlugin_KeepCall(m) ==
    LET f == Top(m.stack)
    IN  [m EXCEPT !.stack = SetTop(m.stack,
            [f EXCEPT !.new_parts = Append(f.new_parts, Part(f)),
                      !.pl = 1, !.pos = f.pos + 1])]

\* the plugin loop ends without a match: nothing is pushed, the next part
EvalNoPlugin(m) ==
    LET f == Top(m.stack)
    IN  [m EXCEPT !.stack = SetTop(m.stack, [f EXCEPT !.pl = 1, !.pos = f.pos + 1])]

\* the error of evaluate passed over by main, which goes on to rebuild
EvalFail_Ignored(m, r) ==
    [m EXCEPT !.stack = <<>>, !.evaluated = r, !.pc = "rebuild"]

\* evaluate returns an error: `?` hands it up through every frame to main,
\* whose unwrap panics
EvalFail(m, r) ==
    [m EXCEPT !.stack = <<>>, !.evaluated = r, !.pc = "panic",
              !.panic = "unwrap of evaluate"]

\* the parts of the plugin pushed as they are, evaluate not entered again
EnterEvaluate_NoRecursion(m, r) ==
    LET f == Top(m.stack)
    IN  IF r.tag = "Err" THEN EvalFail(m, r)
        ELSE IF r.tag = "Panic"
             THEN [m EXCEPT !.stack = <<>>, !.pc = "panic", !.panic = r.err]
        ELSE [m EXCEPT !.stack = SetTop(m.stack,
                [f EXCEPT !.new_parts = f.new_parts \o r.parts,
                          !.pl = 1, !.pos = f.pos + 1])]

\* line 270, after function_called: `?` returns its error, and evaluate is
\* entered again on its parts; past MaxDepth frames the stack overflows
EnterEvaluate(m, r) ==
    IF r.tag = "Err" THEN EvalFail(m, r)
    ELSE IF r.tag = "Panic"
         THEN [m EXCEPT !.stack = <<>>, !.pc = "panic", !.panic = r.err]
    ELSE IF Len(m.stack) >= MaxDepth
         THEN [m EXCEPT !.stack = <<>>, !.pc = "stack overflow"]
    ELSE [m EXCEPT !.stack = Append(m.stack, Frame(r.parts))]

\* line 270: the plugin is invoked (and the invocation joins the history)
EvalInvoke(m, pls, filesys, checks) ==
    LET f == Top(m.stack)
        part == Part(f)
        logged == [m EXCEPT !.invoked = Append(m.invoked, Invocation(m.stack, f.pl, part))]
    IN  CHOOSE next \in
            {EnterEvaluate(logged, r) :
                r \in {function_called(pls[f.pl], part.function, part.arguments,
                                        ContextPath(part), filesys, checks)}} : TRUE

\* the parts of the inner evaluate put before the parts collected so far
AfterInvoke_Prepend(f, parts) ==
    [f EXCEPT !.new_parts = parts \o f.new_parts, !.pl = 1, !.pos = f.pos + 1]

\* the loop without its `break`: it goes on to the next plugin
AfterInvoke_NoBreak(f, parts) ==
    [f EXCEPT !.new_parts = f.new_parts \o parts, !.pl = f.pl + 1]

\* lines 271-272: the parts of the inner evaluate are appended, then `break`
AfterInvoke(f, parts) ==
    [f EXCEPT !.new_parts = f.new_parts \o parts, !.pl = 1, !.pos = f.pos + 1]

\* line 278: Ok(new_parts), to the evaluate that called or to main
EvalReturn(m) ==
    LET f == Top(m.stack)
        below == Front(m.stack)
    IN  IF below = <<>>
        THEN [m EXCEPT !.stack = <<>>, !.evaluated = PluginOk(f.new_parts),
                       !.pc = "rebuild"]
        ELSE [m EXCEPT !.stack = SetTop(below, AfterInvoke(Top(below), f.new_parts))]

\* line 296: parse_md(&args.file).unwrap(), then evaluate is entered
Unwrap(m, r) ==
    IF r.tag = "Ok"
    THEN [m EXCEPT !.pc = "evaluate", !.content = r.parts,
                   !.stack = <<Frame(r.parts)>>]
    ELSE [m EXCEPT !.pc = "panic", !.panic = "unwrap of parse_md"]

MainParse(m, filesys, checks) ==
    CHOOSE next \in {Unwrap(m, r) : r \in {parse_md(m.file, filesys, checks)}} : TRUE

\* line 300: rebuild
MainRebuild(m) ==
    LET r == rebuild(m.evaluated.parts)
    IN  IF r.tag = "Ok" THEN [m EXCEPT !.text = r, !.pc = "write"]
        ELSE [m EXCEPT !.pc = "panic", !.panic = "Call in rebuild"]

\* line 302: the text is written to dist.md next to args.file
DistMd == <<"d", "i", "s", "t", ".", "m", "d">>
DistPath(file) == Join(Parent(file), DistMd)
WriteDist(m, filesys) ==
    [p \in DOMAIN filesys \cup {DistPath(m.file)} |->
        IF p = DistPath(m.file) THEN m.text.text ELSE filesys[p]]
MainWrite(m) == [m EXCEPT !.pc = "exit"]

----------------------------------------------------------------------------
(* Inputs *)

\* call bodies: every short text over the alphabet of the call grammar ...
CallAlphabet == {"f", "3", "-", " ", "(", ")", ",", HASH, QUOTE, "é"}
ShortBodies == SeqsUpTo(CallAlphabet, MaxShortLen)

\* ... and calls built from a name and a list of argument texts
RECURSIVE CommaSeparated(_)
CommaSeparated(texts) ==
    IF texts = <<>> THEN <<>>
    ELSE IF Len(texts) = 1 THEN texts[1]
    ELSE texts[1] \o <<",">> \o CommaSeparated(Tail(texts))

CallBody(ws, name, texts) == ws \o name \o <<"(">> \o CommaSeparated(texts) \o <<")">>

LeadingWhitespace == {<<>>, <<" ">>}
FunctionNames == {<<"f">>, <<"g", "3">>}

\* the literal forms of an argument, each with the value it denotes
Literals ==
    {[text |-> <<HASH, "f", HASH>>, value |-> ValuePath(<<"f">>)],
     [text |-> <<QUOTE, "g", QUOTE>>, value |-> ValueString(<<"g">>)],
     [text |-> <<"3">>, value |-> ValueNumber(3)],
     [text |-> <<" ", "-", "3", "7">>, value |-> ValueNumber(0 - 37)],
     [text |-> <<QUOTE, "f", ",", "g", QUOTE>>, value |-> ValueString(<<"f", ",", "g">>)],
     [text |-> <<" ", HASH, "f", ")", QUOTE, HASH>>, value |-> ValuePath(<<"f", ")", QUOTE>>)]}
LiteralArgs == {l.text : l \in Literals}
\* an argument text opened by a delimiter and never closed
UnclosedArgs == {<<HASH, "f">>, <<" ", QUOTE, "f", "g">>}
\* an argument text that is empty once trimmed
BlankArgs == {<<>>, <<" ">>}
\* other texts that are no literal: a name, a path with a tail, and an
\* integer of twenty digits, past the range of i64
TwentyDigits == [k \in 1..20 |-> "3"]
OtherArgs == {<<"f">>, <<HASH, "f", HASH, "g">>, TwentyDigits}

ArgTexts == LiteralArgs \cup UnclosedArgs \cup BlankArgs \cup OtherArgs
StructuredBodies ==
    {CallBody(ws, name, texts) :
        ws \in LeadingWhitespace, name \in FunctionNames,
        texts \in SeqsUpTo(ArgTexts, MaxArgs)}

CallInputs == ShortBodies \cup StructuredBodies

\* file contents: every short text over braces and two other characters ...
MdAlphabet == {"{", "}", "f", "("}
ShortTexts == SeqsUpTo(MdAlphabet, MaxTextLen)

\* ... and texts put together from pieces: plain text, single and double
\* braces, calls that parse and calls that do not
Pieces ==
    {<<"f">>, <<"{">>, <<"}">>, <<"{", "{">>, <<"}", "}">>,
     <<"{", "{", " ", "f", "(", "3", ")", "}", "}">>,
     <<"{", "{", "g", "(", HASH, "f", HASH, ")", "}", "}">>,
     <<"{", "{", " ", "f", "(", "-", ")", "}", "}">>}
PieceTexts == {Flatten(ps) : ps \in SeqsUpTo(Pieces, MaxPieces)}

MdInputs == ShortTexts \cup PieceTexts

\* args.file
TopFile == <<"t">>

\* the files of the runs of main: t, u and g next to each other, c and g
\* in the directory s
FileU == <<"u">>
FileG == <<"g">>
FileSC == <<"s", SEP, "c">>
FileSG == <<"s", SEP, "g">>

IncludeCall(ws, path) ==
    <<"{", "{">> \o ws \o Include \o <<"(", HASH>> \o path \o <<HASH, ")", "}", "}">>
\* a call of a function no plugin exposes, and an include of a number
NopeCall == <<"{", "{", " ", "n", "o", "p", "e", "(", "3", ")", "}", "}">>
IncludeNumber == <<"{", "{", " ">> \o Include \o <<"(", "3", ")", "}", "}">>
\* a call that does not parse: `-` is no integer
BrokenCall == <<"{", "{", " ", "f", "(", "-", ")", "}", "}">>

\* documents that include s/c, documents that include u, and the others:
\* an include of t itself, an include of a number before an include of t,
\* a call no plugin exposes, an include of a file that is not there, and
\* plain text
IncludingSC ==
    {<<"A">> \o IncludeCall(ws, FileSC) \o <<"B">> : ws \in LeadingWhitespace}
IncludingU == {<<"A">> \o IncludeCall(<<" ">>, FileU) \o <<"B">>}
OtherDocuments ==
    {IncludeCall(<<" ">>, TopFile) \o <<"B">>,
     <<"A">> \o IncludeNumber \o IncludeCall(<<" ">>, TopFile),
     <<"A">> \o NopeCall \o <<"B">>,
     <<"A">> \o IncludeCall(<<" ">>, <<"m">>) \o <<"B">>,
     <<"A", "B">>}
ContentsU ==
    {NoFile, <<"U">>, <<"U">> \o IncludeCall(<<" ">>, TopFile), <<"U">> \o BrokenCall}
ContentsSC ==
    {<<"C">> \o IncludeCall(ws, FileG) \o <<"D">> : ws \in LeadingWhitespace}
    \cup {NoFile, <<"C">>}
ContentsSG == {NoFile, <<"G">>, <<"G">> \o NopeCall \o <<"H">>}
ContentsG == {NoFile, <<"X">>}

Files(t, u, c, sg, g) ==
    [p \in {TopFile, FileU, FileSC, FileSG, FileG} |->
        IF p = TopFile THEN t
        ELSE IF p = FileU THEN u
        ELSE IF p = FileSC THEN c
        ELSE IF p = FileSG THEN sg
        ELSE g]

\* the files a document does not reach are left out (NoFile)
FileSystems ==
    {Files(t, NoFile, c, sg, g) :
        t \in IncludingSC, c \in ContentsSC, sg \in ContentsSG, g \in ContentsG}
    \cup {Files(t, u, NoFile, NoFile, NoFile) : t \in IncludingU, u \in ContentsU}
    \cup {Files(t, NoFile, NoFile, NoFile, NoFile) : t \in OtherDocuments}

----------------------------------------------------------------------------
(* parse_call alone *)

NoFiles == [p \in {} |-> NoFile]

Call_Start ==
    /\ pcall.pc = "while" /\ LoopRuns(pcall) /\ HasChar(pcall) /\ pcall.cs = "Start"
    /\ pcall' = PCallStep(pcall, overflow_checks)
    /\ UNCHANGED <<overflow_checks, pmd, fs, plugins, main>>

Call_FunctionName ==
    /\ pcall.pc = "while" /\ LoopRuns(pcall) /\ HasChar(pcall)
    /\ pcall.cs = "FunctionName"
    /\ pcall' = PCallStep(pcall, overflow_checks)
    /\ UNCHANGED <<overflow_checks, pmd, fs, plugins, main>>

Call_FunctionArgs ==
    /\ pcall.pc = "while" /\ LoopRuns(pcall) /\ HasChar(pcall)
    /\ pcall.cs = "FunctionArgs"
    /\ pcall' = PCallStep(pcall, overflow_checks)
    /\ UNCHANGED <<overflow_checks, pmd, fs, plugins, main>>

\* the byte bound lets the loop run where no character is left
Call_PastEnd ==
    /\ pcall.pc = "while" /\ LoopRuns(pcall) /\ ~HasChar(pcall)
    /\ pcall' = PCallStep(pcall, overflow_checks)
    /\ UNCHANGED <<overflow_checks, pmd, fs, plugins, main>>

Call_Incr ==
    /\ pcall.pc = "incr"
    /\ pcall' = PCallStep(pcall, overflow_checks)
    /\ UNCHANGED <<overflow_checks, pmd, fs, plugins, main>>

Call_Exit ==
    /\ pcall.pc = "while" /\ ~LoopRuns(pcall)
    /\ pcall' = PCallStep(pcall, overflow_checks)
    /\ UNCHANGED <<overflow_checks, pmd, fs, plugins, main>>


InitCall ==
    /\ overflow_checks \in BOOLEAN
    /\ pcall \in {PCallInit(b) : b \in CallInputs}
    /\ pmd = PMdIdle
    /\ fs = NoFiles
    /\ plugins = <<>>
    /\ main = MainIdle

NextCall ==
    \/ Call_Start
    \/ Call_FunctionName
    \/ Call_FunctionArgs
    \/ Call_PastEnd
    \/ Call_Incr
    \/ Call_Exit

SpecCall == InitCall /\ [][NextCall]_vars

----------------------------------------------------------------------------
(* Claims about parse_call *)

Texts(ls) == [k \in 1..Len(ls) |-> ls[k].text]
Values(ls) == [k \in 1..Len(ls) |-> ls[k].value]

\* C2: parse_call of a well-formed call body (an alphanumeric name, `(`,
\* a comma-separated list of path, string and integer literals, `)`, with
\* or without whitespace before the name) returns Ok with the name and the
\* arguments in source order, each classified by its literal form with the
\* delimiters stripped.
C2_WellFormedCallParses ==
    \A ws \in LeadingWhitespace, name \in FunctionNames,
       ls \in SeqsUpTo(Literals, MaxArgs) \ {<<>>} :
        (pcall.pc = "done" /\ pcall.buffer = CallBody(ws, name, Texts(ls)))
            => pcall.result = CallOk(name, Values(ls))

\* C7: parse_call of a call whose one argument is a path or string literal
\* that is opened and never closed fails with UnclosedLiteral (stated for
\* the runs the overflow check of the build does not end).
C7_UnclosedLiteralFails ==
    \A ws \in LeadingWhitespace, name \in FunctionNames, u \in UnclosedArgs :
        (/\ pcall.pc = "done"
         /\ pcall.buffer = CallBody(ws, name, <<u>>)
         /\ pcall.result.tag # "Panic")
            => pcall.result = CallErr("UnclosedLiteral", "")

\* C8: a call with nothing between `(` and `)` is accepted: parse_call
\* returns the function name with an empty argument sequence (stated for
\* the runs the overflow check of the build does not end).
C8_ZeroArgumentsAccepted ==
    \A ws \in LeadingWhitespace, name \in FunctionNames :
        (/\ pcall.pc = "done"
         /\ pcall.buffer = CallBody(ws, name, <<>>)
         /\ pcall.result.tag # "Panic")
            => pcall.result = CallOk(name, <<>>)

\* parse_call is at a character in state FunctionArgs
AtArgs(st) == st.pc = "while" /\ LoopRuns(st) /\ HasChar(st) /\ st.cs = "FunctionArgs"

\* ... and the character closes the argument: a `,` or a `)` outside the
\* literal modes
Closes(st) == AtArgs(st) /\ CharAt(st) \in {",", ")"} /\ ~st.in_path /\ ~st.in_string

Blank(buf) == \A k \in 1..Len(buf) : IsWhitespace(buf[k])

\* C13: whenever parse_call closes an argument, at a `,` or at the `)`,
\* and the argument buffer is empty or all whitespace, parse_call returns
\* Err(EmptyArgument), whatever the arguments before it were.
C13_BlankArgumentFails ==
    [][(Closes(pcall) /\ Blank(pcall.buf)) =>
        (pcall'.pc = "done" /\ pcall'.result = CallErr("EmptyArgument", ""))]_vars

\* the second argument of a call was blank
C13_Witness ==
    /\ pcall.pc = "done"
    /\ pcall.result = CallErr("EmptyArgument", "")
    /\ Len(pcall.args) = 1
    /\ pcall.buf = <<" ">>
    /\ CharAt(pcall) = ")"

\* a signed decimal integer: an optional sign, then digits
SignedDecimal(a) ==
    \E n \in {0, 1} :
        /\ n < Len(a)
        /\ n = 1 => a[1] \in {"+", "-"}
        /\ \A k \in (n + 1)..Len(a) : a[k] \in Digits

\* C14: whenever parse_call closes an argument whose trimmed text is not
\* empty and starts with neither `#` nor `"`, the argument is taken for an
\* integer: if the text is a signed decimal integer in the range of i64 the
\* value Number(n) joins the arguments, and if not (a name, a sign alone, a
\* number of twenty digits) parse_call returns Err(ParseIntError).
C14_IntegerArgument ==
    [][LET a == Trim(pcall.buf)
       IN  (Closes(pcall) /\ a # <<>> /\ Head(a) \notin {HASH, QUOTE}) =>
             IF SignedDecimal(a) /\ InRangeI64(a)
             THEN /\ pcall'.args = Append(pcall.args, ValueNumber(IntegerVal(a)))
                  /\ pcall'.result.tag \in {"None", "Ok"}
             ELSE /\ pcall'.pc = "done"
                  /\ pcall'.result = CallErr("ParseIntError", "")]_vars

\* a negative integer was accepted, then an integer past the range refused
C14_Witness ==
    /\ pcall.pc = "done"
    /\ pcall.result = CallErr("ParseIntError", "")
    /\ pcall.args = <<ValueNumber(0 - 37)>>
    /\ pcall.buf = TwentyDigits

\* in a literal mode, the character is one that is structural outside it
LiteralDelimiter(st) ==
    /\ AtArgs(st)
    /\ \/ (st.in_path \/ st.in_string) /\ CharAt(st) \in {",", ")"}
       \/ st.in_string /\ CharAt(st) = HASH
       \/ st.in_path /\ CharAt(st) = QUOTE

\* C15: while the string or the path mode is on, a `,`, a `)` and the
\* quote of the other mode are appended to the argument buffer: no argument
\* is closed, the modes stay as they are and parse_call goes on. The call
\* ` f("f,g", #f)"#)` yields [String("f,g"), Path("f)\"")].
C15_LiteralKeepsDelimiters ==
    /\ [][LiteralDelimiter(pcall) =>
            /\ pcall'.pc = "incr"
            /\ pcall'.buf = Append(pcall.buf, CharAt(pcall))
            /\ pcall'.args = pcall.args
            /\ pcall'.in_path = pcall.in_path
            /\ pcall'.in_string = pcall.in_string]_vars
    /\ []((/\ pcall.pc = "done"
           /\ pcall.buffer = CallBody(<<" ">>, <<"f">>,
                  <<<<QUOTE, "f", ",", "g", QUOTE>>, <<" ", HASH, "f", ")", QUOTE, HASH>>>>))
            => pcall.result = CallOk(<<"f">>,
                  <<ValueString(<<"f", ",", "g">>), ValuePath(<<"f", ")", QUOTE>>)>>))

\* a string with a comma and a path with a `)` and a `"` were parsed
C15_Witness ==
    /\ pcall.pc = "done"
    /\ pcall.result.tag = "Ok"
    /\ pcall.result.args =
          <<ValueString(<<"f", ",", "g">>), ValuePath(<<"f", ")", QUOTE>>)>>

\* parse_call has ended at a `)` that closes the call
StructuralClose(st) ==
    /\ st.cs = "FunctionArgs" /\ HasChar(st) /\ CharAt(st) = ")"
    /\ ~st.in_path /\ ~st.in_string

\* C17: when parse_call ends without reaching a `)` that closes the call
\* (and without a CallParseError before the end of the input) it returns
\* Ok with the arguments the commas have closed, the unfinished buffer is
\* dropped, and the function name is empty when no `(` was seen.
C17_EndOfInputOk ==
    (pcall.pc = "done" /\ ~StructuralClose(pcall) /\ pcall.result.tag # "Err") =>
        /\ pcall.result = CallOk(pcall.function_name, pcall.args)
        /\ pcall.cs # "FunctionArgs" => pcall.result.function_name = <<>>

\* C19: the string mode and the path mode are never both on, and both are
\* off right after a `,` has closed an argument.
C19_ModesExclusive ==
    /\ [](~(pcall.in_path /\ pcall.in_string))
    /\ [][(AtArgs(pcall) /\ CharAt(pcall) = ","
              /\ Len(pcall'.args) = Len(pcall.args) + 1) =>
            (~pcall'.in_path /\ ~pcall'.in_string)]_vars

\* a `,` has just closed a string literal
C19_Witness ==
    /\ pcall.pc = "incr" /\ pcall.cs = "FunctionArgs"
    /\ CharAt(pcall) = ","
    /\ Len(pcall.args) = 1 /\ pcall.args[1].type = "String"
    /\ pcall.buf = <<>>
    /\ ~pcall.in_path /\ ~pcall.in_string

\* C20: the position i of parse_call never goes below zero, every position
\* the loop reads holds a character, and parse_call returns Ok or a
\* CallParseError: it never panics.
C20_PositionValid ==
    /\ pcall.i >= 0
    /\ (pcall.pc = "while" /\ LoopRuns(pcall)) => HasChar(pcall)
    /\ pcall.pc = "done" => pcall.result.tag \in {"Ok", "Err"}

----------------------------------------------------------------------------
(* parse_md alone, and rebuild of its parts *)

Md_InText ==
    /\ pmd.pc = "chars" /\ pmd.pos <= Len(pmd.content) /\ pmd.cs = "InText"
    /\ pmd' = PMdStep(pmd, overflow_checks)
    /\ UNCHANGED <<overflow_checks, pcall, fs, plugins, main>>

Md_InCall ==
    /\ pmd.pc = "chars" /\ pmd.pos <= Len(pmd.content) /\ pmd.cs = "InCall"
    /\ pmd' = PMdStep(pmd, overflow_checks)
    /\ UNCHANGED <<overflow_checks, pcall, fs, plugins, main>>

Md_End ==
    /\ pmd.pc = "chars" /\ pmd.pos > Len(pmd.content)
    /\ pmd' = PMdStep(pmd, overflow_checks)
    /\ UNCHANGED <<overflow_checks, pcall, fs, plugins, main>>

\* rebuild applied to the parts parse_md returned
Md_Rebuild ==
    /\ pmd.pc = "done" /\ pmd.result.tag = "Ok"
    /\ pmd' = [pmd EXCEPT !.pc = "rebuilt", !.rebuilt = rebuild(pmd.result.parts)]
    /\ UNCHANGED <<overflow_checks, pcall, fs, plugins, main>>

InitMd ==
    /\ overflow_checks \in BOOLEAN
    /\ pcall = PCallIdle
    /\ fs \in {[p \in {TopFile} |-> t] : t \in MdInputs \cup {NoFile}}
    /\ pmd = PMdInit(TopFile, fs)
    /\ plugins = <<>>
    /\ main = MainIdle

NextMd ==
    \/ Md_InText
    \/ Md_InCall
    \/ Md_End
    \/ Md_Rebuild

SpecMd == InitMd /\ [][NextMd]_vars

\* the text has a `{{` and, after it, a `}}`
HasCallSequence(text) ==
    \E j \in 1..Len(text), k \in 1..Len(text) :
        /\ j + 2 <= k /\ k + 1 <= Len(text)
        /\ text[j] = "{" /\ text[j + 1] = "{"
        /\ text[k] = "}" /\ text[k + 1] = "}"

\* the text has a `{{`
HasOpening(text) ==
    \E j \in 1..Len(text) : j + 1 <= Len(text) /\ text[j] = "{" /\ text[j + 1] = "{"

\* C1, as claimed: for a text with no `{{...}}` sequence, parse_md then
\* rebuild returns exactly the text.
C1_RoundTripNoCallSequence ==
    (pmd.pc = "rebuilt" /\ ~HasCallSequence(pmd.content))
        => pmd.rebuilt = RebuildOk(pmd.content)

\* C1, amended: for a text with no two adjacent `{`, parse_md returns Ok
\* and rebuild of its parts returns exactly the text.
C1_RoundTripNoOpening ==
    /\ (pmd.pc = "done" /\ ReadToString(fs, TopFile) # NoFile
            /\ ~HasOpening(ReadToString(fs, TopFile)))
        => pmd.result.tag = "Ok"
    /\ (pmd.pc = "rebuilt" /\ ~HasOpening(pmd.content))
        => pmd.rebuilt = RebuildOk(pmd.content)

\* a text with single braces and a `}}` has made the round trip
C1_Witness ==
    /\ pmd.pc = "rebuilt"
    /\ ~HasOpening(pmd.content)
    /\ \E j \in 1..Len(pmd.content) : pmd.content[j] = "{"
    /\ \E j \in 1..Len(pmd.content) - 1 :
        pmd.content[j] = "}" /\ pmd.content[j + 1] = "}"
    /\ pmd.rebuilt = RebuildOk(pmd.content)

\* the character parse_md is at is a brace, the character before it is the
\* same brace, and the state is the one the pair is a delimiter in
DoubledBrace(st) ==
    /\ st.pos > 1
    /\ st.content[st.pos - 1] = st.content[st.pos]
    /\ \/ st.cs = "InText" /\ st.content[st.pos] = "{"
       \/ st.cs = "InCall" /\ st.content[st.pos] = "}"

\* C11: in parse_md only the second of two adjacent `{` in state InText, or
\* of two adjacent `}` in state InCall, changes the state (or, closing a
\* call that does not parse, ends parse_md). Every other character, a
\* single `{` or `}` included, is appended to the buffer and leaves the
\* state and the parts as they are.
C11_OnlyDoubledBraces ==
    [][(pmd.pc = "chars" /\ pmd.pos <= Len(pmd.content)) =>
        IF DoubledBrace(pmd)
        THEN \/ pmd'.pc = "done" /\ pmd'.result.tag # "Ok"
             \/ /\ pmd'.pc = "chars" /\ pmd'.cs # pmd.cs /\ pmd'.buf = <<>>
                /\ Len(pmd'.parts) = Len(pmd.parts) + 1
        ELSE /\ pmd'.pc = "chars" /\ pmd'.cs = pmd.cs
             /\ pmd'.buf = Append(pmd.buf, pmd.content[pmd.pos])
             /\ pmd'.parts = pmd.parts]_vars

\* a single `{` and a single `}` were kept in the text before a call
C11_Witness ==
    /\ pmd.pc = "done" /\ pmd.result.tag = "Ok"
    /\ Len(pmd.result.parts) = 3
    /\ pmd.result.parts[1].content = <<"{", "}">>
    /\ pmd.result.parts[2].kind = "Call"

\* the parts alternate: no two neighbours are of the same kind
Alternates(parts) == \A k \in 1..(Len(parts) - 1) : parts[k].kind # parts[k + 1].kind
TextParts(parts) == {k \in 1..Len(parts) : parts[k].kind = "Text"}
CallParts(parts) == {k \in 1..Len(parts) : parts[k].kind = "Call"}

\* C18, as claimed: every Ok result of parse_md alternates Text and Call
\* parts, begins and ends with a Text part (so it has one Text part more
\* than Call parts), and every part carries the path of the file.
C18_AlternatingParts ==
    pmd.result.tag = "Ok" =>
        LET parts == pmd.result.parts
        IN  /\ parts # <<>>
            /\ parts[1].kind = "Text" /\ Last(parts).kind = "Text"
            /\ Alternates(parts)
            /\ Cardinality(TextParts(parts)) = Cardinality(CallParts(parts)) + 1
            /\ \A k \in 1..Len(parts) : parts[k].source = pmd.path

\* C18, amended: every Ok result of parse_md begins and ends with a Text
\* part, has no two Call parts next to each other, and every part carries
\* the path of the file. When the input ends in state InText the parts
\* alternate and there is one Text part more than Call parts; when it ends
\* in state InCall (a `{{` that is never closed) the parts before the last
\* alternate and the last two are both Text parts, the text before the
\* `{{` and the text after it: two Text parts more than Call parts.
C18_TextAroundCalls ==
    pmd.result.tag = "Ok" =>
        LET parts == pmd.result.parts
        IN  /\ parts # <<>>
            /\ parts[1].kind = "Text" /\ Last(parts).kind = "Text"
            /\ \A k \in 1..(Len(parts) - 1) :
                    parts[k].kind = "Text" \/ parts[k + 1].kind = "Text"
            /\ \A k \in 1..Len(parts) : parts[k].source = pmd.path
            /\ pmd.cs = "InText" =>
                /\ Alternates(parts)
                /\ Cardinality(TextParts(parts)) = Cardinality(CallParts(parts)) + 1
            /\ pmd.cs = "InCall" =>
                /\ Len(parts) >= 2
                /\ Alternates(Front(parts))
                /\ parts[Len(parts) - 1].kind = "Text"
                /\ Cardinality(TextParts(parts)) = Cardinality(CallParts(parts)) + 2

\* a call, then a `{{` that is never closed
C18_Witness ==
    /\ pmd.pc = "done" /\ pmd.result.tag = "Ok"
    /\ pmd.cs = "InCall"
    /\ Len(pmd.result.parts) = 4
    /\ pmd.result.parts[2].kind = "Call"
    /\ pmd.result.parts[4].content = <<"f">>

----------------------------------------------------------------------------
(* main: parse_md, evaluate, rebuild, write *)

Main_Parse ==
    /\ main.pc = "parse"
    /\ main' = MainParse(main, fs, overflow_checks)
    /\ UNCHANGED <<overflow_checks, pcall, pmd, fs, plugins>>

Eval_Text ==
    /\ AtPart(main, "Text")
    /\ main' = EvalText(main)
    /\ UNCHANGED <<overflow_checks, pcall, pmd, fs, plugins>>

Eval_NextPlugin ==
    /\ AtPart(main, "Call")
    /\ Top(main.stack).pl <= Len(plugins)
    /\ ~Exposes(plugins[Top(main.stack).pl], Part(Top(main.stack)).function)
    /\ main' = EvalNextPlugin(main)
    /\ UNCHANGED <<overflow_checks, pcall, pmd, fs, plugins>>

Eval_NoPlugin ==
    /\ AtPart(main, "Call")
    /\ Top(main.stack).pl > Len(plugins)
    /\ main' = EvalNoPlugin(main)
    /\ UNCHANGED <<overflow_checks, pcall, pmd, fs, plugins>>

Eval_Invoke ==
    /\ AtPart(main, "Call")
    /\ Top(main.stack).pl <= Len(plugins)
    /\ Exposes(plugins[Top(main.stack).pl], Part(Top(main.stack)).function)
    /\ main' = EvalInvoke(main, plugins, fs, overflow_checks)
    /\ UNCHANGED <<overflow_checks, pcall, pmd, fs, plugins>>

Eval_Return ==
    /\ main.pc = "evaluate"
    /\ Top(main.stack).pos > Len(Top(main.stack).content)
    /\ main' = EvalReturn(main)
    /\ UNCHANGED <<overflow_checks, pcall, pmd, fs, plugins>>

Main_Rebuild ==
    /\ main.pc = "rebuild"
    /\ main' = MainRebuild(main)
    /\ UNCHANGED <<overflow_checks, pcall, pmd, fs, plugins>>

Main_Write ==
    /\ main.pc = "write"
    /\ fs' = WriteDist(main, fs)
    /\ main' = MainWrite(main)
    /\ UNCHANGED <<overflow_checks, pcall, pmd, plugins>>

InitEval ==
    /\ overflow_checks \in BOOLEAN
    /\ pcall = PCallIdle
    /\ pmd = PMdIdle
    /\ fs \in FileSystems
    /\ plugins \in SeqsUpTo(Plugins, MaxPlugins)
    /\ main = MainInit(TopFile)

NextEval ==
    \/ Main_Parse
    \/ Eval_Text
    \/ Eval_NextPlugin
    \/ Eval_NoPlugin
    \/ Eval_Invoke
    \/ Eval_Return
    \/ Main_Rebuild
    \/ Main_Write

SpecEval == InitEval /\ [][NextEval]_vars

\* main runs to its end: nothing else is scheduled
FairSpecEval == SpecEval /\ WF_vars(NextEval)

----------------------------------------------------------------------------
(* Claims about evaluate *)

AllText(parts) == \A k \in 1..Len(parts) : parts[k].kind = "Text"
Sources(parts) == [k \in 1..Len(parts) |-> parts[k].source]
Contents(parts) == Flatten([k \in 1..Len(parts) |-> parts[k].content])

\* the calls of the document main parsed whose function no plugin exposes
Unexposed ==
    {k \in 1..Len(main.content) :
        /\ main.content[k].kind = "Call"
        /\ \A n \in 1..Len(plugins) : ~Exposes(plugins[n], main.content[k].function)}

\* C3: evaluate of a document with a call whose function no registered
\* plugin exposes fails with FunctionNotFound carrying that name, and never
\* succeeds.
C3_UnexposedCallFails ==
    (main.evaluated.tag # "None" /\ plugins # <<>> /\ Unexposed # {})
        => \E k \in Unexposed :
            main.evaluated = PluginErr("FunctionNotFound", "None", main.content[k].function)

\* C4: whenever evaluate returns Ok its parts are all Text parts, so
\* rebuild of what evaluate returned never panics with `Call in rebuild`.
C4_EvaluateOkOnlyText ==
    /\ main.evaluated.tag = "Ok" => AllText(main.evaluated.parts)
    /\ main.panic # "Call in rebuild"

\* a run through two nested includes and a call no plugin exposes has ended
C4_Witness ==
    /\ main.pc = "exit"
    /\ Len(main.invoked) >= 2
    /\ fs[FileSG] = <<"G">> \o NopeCall \o <<"H">>
    /\ Contents(main.evaluated.parts) = <<"A", "C", "G", "H", "D", "B">>

\* t includes s/c, and s/c includes g
NestedIncludes ==
    /\ \E ws \in LeadingWhitespace :
        fs[TopFile] = <<"A">> \o IncludeCall(ws, FileSC) \o <<"B">>
    /\ \E ws \in LeadingWhitespace :
        fs[FileSC] = <<"C">> \o IncludeCall(ws, FileG) \o <<"D">>
    /\ plugins # <<>>

\* C5: when t includes s/c and s/c includes g, each path is resolved
\* against the directory of the file the call is in: the g that is read is
\* s/g, whatever the g next to t holds, and its text stands at the place
\* of the call, between the texts of s/c, between the texts of t.
C5_NestedIncludeResolved ==
    (NestedIncludes /\ main.evaluated.tag # "None") =>
        /\ fs[FileSG] = NoFile => main.evaluated.tag = "Err"
        /\ fs[FileSG] = <<"G">> =>
            /\ main.evaluated.tag = "Ok"
            /\ Contents(main.evaluated.parts) = <<"A", "C", "G", "D", "B">>
            /\ Sources(main.evaluated.parts)
                 = <<TopFile, FileSC, FileSG, FileSC, TopFile>>
            /\ main.pc = "exit" => fs[DistPath(TopFile)] = <<"A", "C", "G", "D", "B">>

\* the nested includes were expanded and written, with another g next to t
C5_Witness ==
    /\ NestedIncludes
    /\ fs[FileSG] = <<"G">> /\ fs[FileG] = <<"X">>
    /\ main.pc = "exit"
    /\ fs[DistPath(TopFile)] = <<"A", "C", "G", "D", "B">>

\* C6: include fails with ExternalError when the file cannot be read, and
\* with the nested CompilationError when the file is read and does not
\* parse.
C6_IncludeErrors ==
    LET e == Last(main.invoked)
    IN  (/\ main.evaluated.tag = "Err"
         /\ e.part.function = Include
         /\ e.part.arguments # <<>>
         /\ Head(e.part.arguments).type = "Path")
            => IF ReadToString(fs, e.path) = NoFile
               THEN main.evaluated.err = "ExternalError"
               ELSE main.evaluated.err = "CompilationError"

\* the calls evaluate has gone through or is expanding, each as the
\* positions that lead to it through the frames
Positions(k) == [n \in 1..k |-> main.stack[n].pos]
CallsDone(k) ==
    {i \in 1..Len(main.stack[k].content) :
        /\ main.stack[k].content[i].kind = "Call"
        /\ \E n \in 1..Len(plugins) :
              Exposes(plugins[n], main.stack[k].content[i].function)
        /\ IF k < Len(main.stack) THEN i <= main.stack[k].pos
           ELSE i < main.stack[k].pos}
CallsReached ==
    UNION {{Positions(k - 1) \o <<i>> : i \in CallsDone(k)} : k \in 1..Len(main.stack)}

\* C9: when several plugins expose the function of a call, evaluate
\* invokes the first of them in the order of the list, once for the call,
\* and none of the later ones.
C9_FirstPluginOnce ==
    /\ \A n \in 1..Len(main.invoked) :
        /\ Exposes(plugins[main.invoked[n].pl], main.invoked[n].part.function)
        /\ \A k \in 1..(main.invoked[n].pl - 1) :
            ~Exposes(plugins[k], main.invoked[n].part.function)
        /\ \A k \in 1..Len(main.invoked) : main.invoked[k].at = main.invoked[n].at => k = n
    /\ \A c \in CallsReached : \E n \in 1..Len(main.invoked) : main.invoked[n].at = c

\* two plugins expose include, and a run with nested includes has ended
C9_Witness ==
    /\ Len(plugins) = 2
    /\ \A n \in 1..2 : Exposes(plugins[n], Include)
    /\ plugins[1] # plugins[2]
    /\ main.pc = "exit"
    /\ Len(main.invoked) = 2
    /\ \A n \in 1..2 : main.invoked[n].pl = 1


\* the files a file includes: the paths its include calls resolve to
IncludeTargets(file) ==
    LET r == parse_md(file, fs, overflow_checks)
    IN  IF r.tag # "Ok" THEN {}
        ELSE {Join(Parent(file), Head(r.parts[k].arguments).str) :
                k \in {n \in 1..Len(r.parts) :
                        /\ r.parts[n].kind = "Call"
                        /\ r.parts[n].function = Include
                        /\ r.parts[n].arguments # <<>>
                        /\ Head(r.parts[n].arguments).type = "Path"}}

RECURSIVE IncludedWithin(_, _)
IncludedWithin(files, n) ==
    IF n = 0 THEN {}
    ELSE LET next == UNION {IncludeTargets(f) : f \in files}
         IN  next \cup IncludedWithin(next, n - 1)

\* the files a file includes, directly or transitively
Included(file) == IncludedWithin({file}, Cardinality(DOMAIN fs))

\* the document includes itself, and the include graph has a cycle
SelfIncluding == TopFile \in Included(TopFile)
CyclicIncludes == \E f \in {TopFile} \cup Included(TopFile) : f \in Included(f)

\* evaluate has invoked include on a file that was under expansion
Reentered ==
    \E n \in 1..Len(main.invoked) : main.invoked[n].path \in main.invoked[n].active

\* C10, as claimed (with a plugin registered): for a document that includes
\* itself, directly or transitively, evaluate never returns a result,
\* neither Ok nor an error.
C10_SelfIncludeNeverReturns ==
    (main.evaluated.tag # "None" /\ plugins # <<>>) => ~SelfIncluding

\* C10, amended: there is no depth limit and no cycle detection. For a
\* document that includes itself, directly or transitively, evaluate never
\* returns Ok, and once it has invoked include on a file under expansion it
\* never returns a result, neither Ok nor an error: the recursion goes on
\* until the stack overflows. For an acyclic include graph no file under
\* expansion is included again, and main comes to its end.
C10_NoCycleDetection ==
    /\ []((main.evaluated.tag = "Ok" /\ plugins # <<>>) => ~SelfIncluding)
    /\ [](Reentered => (main.evaluated.tag = "None"
                         /\ main.pc \in {"evaluate", "stack overflow"}))
    /\ [](Reentered => CyclicIncludes)
    /\ Reentered ~> (main.pc = "stack overflow")
    /\ <>(Reentered \/ main.pc \in {"exit", "panic"})

\* the recursion of a self-including document has used up the stack
C10_Witness ==
    /\ main.pc = "stack overflow"
    /\ Reentered
    /\ Len(main.invoked) >= MaxDepth
    /\ SelfIncluding

\* the output file of the run
Dist == DistPath(TopFile)

\* what the plugin returned at an invocation of the history
Returned(e) ==
    function_called(plugins[e.pl], e.part.function, e.part.arguments,
                    Parent(e.part.source), fs, overflow_checks)

\* C12: a failure of parse_md, of parse_call or of a plugin, at any depth
\* of inclusion, leaves no output. An error evaluate returns carries no
\* parts and ends main; after a panic or a stack overflow there is no
\* dist.md; and where dist.md exists, main has come to its end, parse_md of
\* the document, every invocation of a plugin, evaluate and rebuild have
\* succeeded, and the file holds the text of rebuild.
C12_NoOutputOnFailure ==
    /\ main.evaluated.tag = "Err" =>
        /\ main.evaluated.parts = <<>>
        /\ main.pc = "panic"
    /\ main.pc \in {"panic", "stack overflow"} => Dist \notin DOMAIN fs
    /\ Dist \in DOMAIN fs =>
        /\ main.pc = "exit"
        /\ parse_md(main.file, fs, overflow_checks) = MdOk(main.content)
        /\ \A n \in 1..Len(main.invoked) : Returned(main.invoked[n]).tag = "Ok"
        /\ main.evaluated.tag = "Ok"
        /\ main.text = rebuild(main.evaluated.parts)
        /\ main.text.tag = "Ok"
        /\ fs[Dist] = main.text.text

\* an include two levels down has failed, after texts had been collected
C12_Witness ==
    /\ main.pc = "panic"
    /\ main.evaluated.tag = "Err"
    /\ Len(main.invoked) = 2
    /\ Returned(main.invoked[1]).tag = "Ok"
    /\ Returned(main.invoked[2]).tag = "Err"
    /\ Dist \notin DOMAIN fs

\* the first plugin of the list that exposes the function, if there is one
Exposed(function) == \E n \in 1..Len(plugins) : Exposes(plugins[n], function)
FirstExposing(function) ==
    CHOOSE n \in 1..Len(plugins) :
        /\ Exposes(plugins[n], function)
        /\ \A k \in 1..(n - 1) : ~Exposes(plugins[k], function)

\* the parts that stand for a sequence of parts once it is expanded, down
\* to n levels: a Text part stands for itself, a call for the expansion of
\* what its plugin returns, and a call no plugin exposes for nothing
RECURSIVE Expansion(_, _)
Expansion(parts, n) ==
    IF parts = <<>> THEN <<>>
    ELSE LET part == Head(parts)
             r == function_called(plugins[FirstExposing(part.function)],
                                  part.function, part.arguments,
                                  Parent(part.source), fs, overflow_checks)
             here == IF part.kind = "Text" THEN <<part>>
                     ELSE IF ~Exposed(part.function) \/ n = 0 THEN <<>>
                     ELSE IF r.tag = "Ok" THEN Expansion(r.parts, n - 1)
                     ELSE <<>>
         IN  here \o Expansion(Tail(parts), n)

\* C16: evaluate keeps the order. At every moment, in every running
\* evaluate, the parts collected so far are the expansion of the parts gone
\* through so far, in their order: each Text part itself, unchanged, and
\* at the place of each call the whole expansion of the call. So the parts
\* evaluate returns are the Text parts of the document in their order,
\* with the expansion of each call between its neighbours.
C16_OrderPreserved ==
    /\ \A k \in 1..Len(main.stack) :
        main.stack[k].new_parts
            = Expansion(SubSeq(main.stack[k].content, 1, main.stack[k].pos - 1), MaxDepth)
    /\ main.evaluated.tag = "Ok" =>
        main.evaluated.parts = Expansion(main.content, MaxDepth)

\* the texts of t stand around the texts of s/c, those around the texts of
\* s/g, and the call within s/g that no plugin exposes has left nothing
C16_Witness ==
    /\ main.evaluated.tag = "Ok"
    /\ Len(main.content) = 3
    /\ Sources(main.evaluated.parts)
         = <<TopFile, FileSC, FileSG, FileSG, FileSC, TopFile>>
    /\ Head(main.evaluated.parts) = main.content[1]
    /\ Last(main.evaluated.parts) = main.content[3]

====
